---- MODULE Spec2Model ----
(***************************************************************************)
(* The two frame processors of the storytelling chatbot                    *)
(* (examples/storytelling-chatbot/src/processors.py):                      *)
(*                                                                         *)
(*   StoryProcessor       buffers the streamed LLM text in _text, cuts     *)
(*                        image prompts <...> and story pages ...[break]   *)
(*                        out of it and pushes frames downstream;          *)
(*   StoryImageProcessor  hands an image prompt to the image service under *)
(*                        a timeout and pushes what the service yields.    *)
(*                                                                         *)
(* Text is a sequence of one-character strings, so that the regular        *)
(* expressions of the code are modelled character by character.            *)
(***************************************************************************)
EXTENDS Integers, Sequences, FiniteSets

VARIABLES
    text,       \* StoryProcessor._text
    story,      \* StoryProcessor._story
    events,     \* every frame StoryProcessor has pushed, in order
    inputs,     \* every frame StoryProcessor.process_frame has handled, in order
    prevText,   \* _text as it was when the last process_frame call began
    prevStory,  \* _story as it was when the last process_frame call began
    out,        \* the frames pushed by the last process_frame call
    imgState,   \* StoryImageProcessor.process_frame: "idle", "running", "done", "raised"
    imgFrame,   \* the frame the current process_frame call handles
    imgPlan,    \* what run_image_gen would yield for the current request
    imgBase,    \* len of imgLog when the current process_frame call began
    imgLog,     \* every frame StoryImageProcessor has pushed, in order
    imgTimedOut,\* the timeout of the current request has fired
    imgAtTimeout,\* imgOut as it was when the timeout fired
    imgError,   \* the exception process_frame let escape, or "none"
    imgCalls,   \* number of process_frame calls of StoryImageProcessor so far
    tasks       \* the StoryProcessor.process_frame coroutines started, in start order

storyVars == <<text, story, events, inputs, prevText, prevStory, out>>
imgVars == <<imgState, imgFrame, imgPlan, imgBase, imgLog, imgTimedOut, imgAtTimeout, imgError, imgCalls>>
taskVars == <<tasks>>
vars == <<text, story, events, inputs, prevText, prevStory, out,
          imgState, imgFrame, imgPlan, imgBase, imgLog, imgTimedOut, imgAtTimeout, imgError, imgCalls,
          tasks>>

(***************************************************************************)
(* Bounds of the model.                                                    *)
(***************************************************************************)
MaxInputs == 3
MaxCalls == 2
MaxResults == 2
MaxTasks == 2

(***************************************************************************)
(* Frames.  A frame is a record of its class and its payload; the payload  *)
(* of a text frame is its text, that of a transport message its message.   *)
(***************************************************************************)
TextFrame(t) == [type |-> "TextFrame", text |-> t]
StoryPageFrame(t) == [type |-> "StoryPageFrame", text |-> t]
StoryImageFrame(t) == [type |-> "StoryImageFrame", text |-> t]
StoryPromptFrame(t) == [type |-> "StoryPromptFrame", text |-> t]
DailyTransportMessageFrame(m) == [type |-> "DailyTransportMessageFrame", text |-> <<m>>]
UserStoppedSpeakingFrame == [type |-> "UserStoppedSpeakingFrame", text |-> <<>>]
LLMFullResponseEndFrame == [type |-> "LLMFullResponseEndFrame", text |-> <<>>]
OtherFrame == [type |-> "Frame", text |-> <<>>]
CUE_USER_TURN == "CUE_USER_TURN"
CUE_ASSISTANT_TURN == "CUE_ASSISTANT_TURN"
sounds(name) == [type |-> "AudioFrame", text |-> <<name>>]

\* isinstance(frame, TextFrame): the three story frames subclass TextFrame
IsTextFrame(frame) ==
    frame.type \in {"TextFrame", "StoryPageFrame", "StoryImageFrame", "StoryPromptFrame"}

(***************************************************************************)
(* The regular expressions of StoryProcessor.process_frame.                *)
(***************************************************************************)
Min(S) == CHOOSE x \in S : \A y \in S : x <= y

\* the positions j of a ">" that closes a "<" at i: "." matches no newline
Closes(s, i) ==
    {j \in (i + 1)..Len(s) : s[j] = ">" /\ \A k \in (i + 1)..(j - 1) : s[k] # "\n"}

\* the positions where r"<.*?>" matches
DirectiveStarts(s) == {i \in 1..Len(s) : s[i] = "<" /\ Closes(s, i) # {}}

\* re.search(r"<.*?>", s)
HasDirective(s) == DirectiveStarts(s) # {}

\* a variant of DirectiveStart: the rightmost match instead of the leftmost
DirectiveStartLast(s) == CHOOSE x \in DirectiveStarts(s) : \A y \in DirectiveStarts(s) : x >= y

\* the leftmost match of r"<.*?>", and its non-greedy end
DirectiveStart(s) == Min(DirectiveStarts(s))
DirectiveEnd(s) == Min(Closes(s, DirectiveStart(s)))

\* a variant of ImagePrompt: group(0), the match with its delimiters
ImagePromptWithDelimiters(s) == SubSeq(s, DirectiveStart(s), DirectiveEnd(s))

\* re.search(r"<(.*?)>", s).group(1)
ImagePrompt(s) == SubSeq(s, DirectiveStart(s) + 1, DirectiveEnd(s) - 1)

\* a variant of RemoveDirective: the whole buffer is cleared with the directive
RemoveDirectiveClearsAll(s) == <<>>

\* re.sub(r"<.*?>", "", s, count=1)
RemoveDirective(s) ==
    SubSeq(s, 1, DirectiveStart(s) - 1) \o SubSeq(s, DirectiveEnd(s) + 1, Len(s))

\* r"\[[bB]reak\]" matches at position i of s
BreakAt(s, i) ==
    /\ i + 6 <= Len(s)
    /\ s[i] = "["
    /\ s[i + 1] \in {"b", "B"}
    /\ s[i + 2] = "r"
    /\ s[i + 3] = "e"
    /\ s[i + 4] = "a"
    /\ s[i + 5] = "k"
    /\ s[i + 6] = "]"

\* a variant of HasBreak: the pattern r"\[break\]", lower case only
HasBreakLowerOnly(s) ==
    \E i \in 1..Len(s) : BreakAt(s, i) /\ s[i + 1] = "b"

\* re.search(r".*\[[bB]reak\].*", s)
HasBreak(s) == \E i \in 1..Len(s) : BreakAt(s, i)

\* the case folding of re.IGNORECASE, on the letters of the pattern
Lower(c) ==
    CASE c = "B" -> "b"
      [] c = "R" -> "r"
      [] c = "E" -> "e"
      [] c = "A" -> "a"
      [] c = "K" -> "k"
      [] OTHER -> c

\* r"\[[bB]reak\]" with flags=re.IGNORECASE matches at position i of s
BreakAtIgnoreCase(s, i) ==
    /\ i + 6 <= Len(s)
    /\ s[i] = "["
    /\ Lower(s[i + 1]) = "b"
    /\ Lower(s[i + 2]) = "r"
    /\ Lower(s[i + 3]) = "e"
    /\ Lower(s[i + 4]) = "a"
    /\ Lower(s[i + 5]) = "k"
    /\ s[i + 6] = "]"

\* re.sub(r"\[[bB]reak\]", "", s, flags=re.IGNORECASE), from position i on:
\* one left-to-right scan, a match is dropped and the scan resumes after it
RECURSIVE RemoveBreaksFrom(_, _)
RemoveBreaksFrom(s, i) ==
    IF i > Len(s) THEN <<>>
    ELSE IF BreakAtIgnoreCase(s, i) THEN RemoveBreaksFrom(s, i + 7)
    ELSE <<s[i]>> \o RemoveBreaksFrom(s, i + 1)

RemoveBreaks(s) == RemoveBreaksFrom(s, 1)

\* s.replace("\n", " ")
ReplaceNewlines(s) == [i \in 1..Len(s) |-> IF s[i] = "\n" THEN " " ELSE s[i]]

\* a variant of LongEnough: >= where the code has >
LongEnoughOffByOne(s) == Len(s) >= 2

\* len(self._text) > 2
MinPageLen == 2
LongEnough(s) == Len(s) > MinPageLen


(***************************************************************************)
(* StoryProcessor.process_frame, TextFrame branch.  A stage maps the       *)
(* buffer (and the story) to the new buffer, the new story and the frames  *)
(* it pushes.                                                              *)
(***************************************************************************)
\* IMAGE PROMPT: the inner test of r"<.*?>.*?>" guards a bare pass and so
\* changes nothing; the first match is extracted whenever there is one
ImageStage(t) ==
    IF HasDirective(t)
    THEN [text |-> RemoveDirective(t), out |-> <<StoryImageFrame(ImagePrompt(t))>>]
    ELSE [text |-> t, out |-> <<>>]

\* a variant of PageStage: the page is put at the head of the story
PageStagePrepends(t, st) ==
    IF HasBreak(t)
    THEN LET page == ReplaceNewlines(RemoveBreaks(t))
         IN  IF Len(page) > 2
             THEN [text |-> <<>>, story |-> <<page>> \o st,
                   out |-> <<StoryPageFrame(page),
                             DailyTransportMessageFrame(CUE_ASSISTANT_TURN)>>]
             ELSE [text |-> <<>>, story |-> st, out |-> <<>>]
    ELSE [text |-> t, story |-> st, out |-> <<>>]

\* a variant of PageStage: the buffer is not cleared after a page
PageStageKeepsBuffer(t, st) ==
    IF HasBreak(t)
    THEN LET page == ReplaceNewlines(RemoveBreaks(t))
         IN  IF Len(page) > 2
             THEN [text |-> page, story |-> Append(st, page),
                   out |-> <<StoryPageFrame(page),
                             DailyTransportMessageFrame(CUE_ASSISTANT_TURN)>>]
             ELSE [text |-> <<>>, story |-> st, out |-> <<>>]
    ELSE [text |-> t, story |-> st, out |-> <<>>]

\* STORY PAGE
PageStage(t, st) ==
    IF HasBreak(t)
    THEN LET page == ReplaceNewlines(RemoveBreaks(t))
         IN  IF LongEnough(page)
             THEN [text |-> <<>>, story |-> Append(st, page),
                   out |-> <<StoryPageFrame(page),
                             DailyTransportMessageFrame(CUE_ASSISTANT_TURN)>>]
             ELSE [text |-> <<>>, story |-> st, out |-> <<>>]
    ELSE [text |-> t, story |-> st, out |-> <<>>]

\* a variant of TextPass: the page stage runs before the image stage
TextPassPageFirst(t, st, chunk) ==
    LET page == PageStage(t \o chunk, st)
        img == ImageStage(page.text)
    IN  [text |-> img.text, story |-> page.story, out |-> page.out \o img.out]

\* self._text += frame.text, then the image stage, then the page stage
TextPass(t, st, chunk) ==
    LET img == ImageStage(t \o chunk)
        page == PageStage(img.text, st)
    IN  [text |-> page.text, story |-> page.story, out |-> img.out \o page.out]

\* a variant of EndPass: the buffer is cleared before the prompt frame is built
EndPassClearFirst(t, frame) ==
    [text |-> <<>>,
     out |-> <<StoryPromptFrame(<<>>), frame,
               DailyTransportMessageFrame(CUE_USER_TURN), sounds("listening")>>]

\* LLMFullResponseEndFrame branch
EndPass(t, frame) ==
    [text |-> <<>>,
     out |-> <<StoryPromptFrame(t), frame,
               DailyTransportMessageFrame(CUE_USER_TURN), sounds("listening")>>]

\* a variant of UserStoppedPass: the sound is pushed before the cue
UserStoppedPassSoundFirst ==
    <<sounds("talking"), DailyTransportMessageFrame(CUE_ASSISTANT_TURN)>>

\* UserStoppedSpeakingFrame branch
UserStoppedPass ==
    <<DailyTransportMessageFrame(CUE_ASSISTANT_TURN), sounds("talking")>>

(***************************************************************************)
(* The inputs.                                                             *)
(***************************************************************************)
Chunk1 == <<"O", "n", "c", "e", " ", "u", "p", "o", "n", " ", "a", " ", "t", "i", "m", "e", ".", " ">>
Chunk2 == <<"[", "b", "r", "e", "a", "k", "]", " ", "<", "a", " ", "c", "a", "s", "t", "l", "e", " ", "a", "t", " ", "s", "u", "n", "s", "e", "t", ">", " ">>
Chunk3 == <<"T", "h", "e", " ", "p", "r", "i", "n", "c", "e", "s", "s", " ", "w", "o", "k", "e", " ", "u", "p", ".", "[", "b", "r", "e", "a", "k", "]">>

Chunks ==
    { Chunk1, Chunk2, Chunk3,
      <<"a", "b", "c">>,
      <<"\n">>,
      <<"<">>,
      <<">">>,
      <<"<", "p", ">">>,
      <<"[", "b", "r", "e", "a", "k", "]">>,
      <<"[", "B", "R", "E", "A", "K", "]">>,
      <<"[", "B", "r">>,
      <<"e", "a", "k", "]">>,
      <<"<", "q", ">", "e", "a", "k", "]">>,
      <<"<", "p", ">", "<", "q", ">", "[", "b", "r", "e", "a", "k", "]">>,
      <<"[", "b", "r", "[", "b", "r", "e", "a", "k", "]", "e", "a", "k", "]">> }

Frames ==
    {TextFrame(c) : c \in Chunks}
        \cup {UserStoppedSpeakingFrame, LLMFullResponseEndFrame, OtherFrame}

(***************************************************************************)
(* StoryProcessor.                                                         *)
(***************************************************************************)
StoryInit ==
    /\ text = <<>>
    /\ story = <<>>
    /\ events = <<>>
    /\ inputs = <<>>
    /\ prevText = <<>>
    /\ prevStory = <<>>
    /\ out = <<>>

Handled(frame, newText, newStory, pushed) ==
    /\ text' = newText
    /\ story' = newStory
    /\ out' = pushed
    /\ events' = events \o pushed
    /\ inputs' = Append(inputs, frame)
    /\ prevText' = text
    /\ prevStory' = story

\* if isinstance(frame, UserStoppedSpeakingFrame)
ProcessUserStopped(frame) ==
    /\ Len(inputs) < MaxInputs
    /\ frame.type = "UserStoppedSpeakingFrame"
    /\ Handled(frame, text, story, UserStoppedPass)
    /\ UNCHANGED <<imgVars, taskVars>>

\* elif isinstance(frame, TextFrame)
ProcessText(frame) ==
    /\ Len(inputs) < MaxInputs
    /\ frame.type # "UserStoppedSpeakingFrame"
    /\ IsTextFrame(frame)
    /\ LET r == TextPass(text, story, frame.text)
       IN  Handled(frame, r.text, r.story, r.out)
    /\ UNCHANGED <<imgVars, taskVars>>

\* elif isinstance(frame, LLMFullResponseEndFrame)
ProcessResponseEnd(frame) ==
    /\ Len(inputs) < MaxInputs
    /\ frame.type # "UserStoppedSpeakingFrame"
    /\ ~IsTextFrame(frame)
    /\ frame.type = "LLMFullResponseEndFrame"
    /\ LET r == EndPass(text, frame)
       IN  Handled(frame, r.text, story, r.out)
    /\ UNCHANGED <<imgVars, taskVars>>

\* a variant of ProcessOther: the frame is swallowed
ProcessOtherSwallowed(frame) ==
    /\ Len(inputs) < MaxInputs
    /\ frame.type # "UserStoppedSpeakingFrame"
    /\ ~IsTextFrame(frame)
    /\ frame.type # "LLMFullResponseEndFrame"
    /\ Handled(frame, text, story, <<>>)
    /\ UNCHANGED <<imgVars, taskVars>>

\* else
ProcessOther(frame) ==
    /\ Len(inputs) < MaxInputs
    /\ frame.type # "UserStoppedSpeakingFrame"
    /\ ~IsTextFrame(frame)
    /\ frame.type # "LLMFullResponseEndFrame"
    /\ Handled(frame, text, story, <<frame>>)
    /\ UNCHANGED <<imgVars, taskVars>>

process_frame(frame) ==
    \/ ProcessUserStopped(frame)
    \/ ProcessText(frame)
    \/ ProcessResponseEnd(frame)
    \/ ProcessOther(frame)

(***************************************************************************)
(* StoryImageProcessor.                                                    *)
(***************************************************************************)
ImgInit ==
    /\ imgState = "idle"
    /\ imgFrame = OtherFrame
    /\ imgPlan = <<>>
    /\ imgBase = 0
    /\ imgLog = <<>>
    /\ imgTimedOut = FALSE
    /\ imgAtTimeout = <<>>
    /\ imgError = "none"
    /\ imgCalls = 0

\* what run_image_gen may yield for one request
ImageResult(name) == [type |-> "URLImageRawFrame", text |-> <<name>>]
RECURSIVE SeqsUpTo(_, _)
SeqsUpTo(S, n) ==
    IF n = 0 THEN {<<>>}
    ELSE LET shorter == SeqsUpTo(S, n - 1)
         IN  shorter \cup {Append(q, x) : q \in shorter, x \in S}
Plans == SeqsUpTo({ImageResult("img1"), ImageResult("img2")}, MaxResults)

ImageFrames == {StoryImageFrame(<<"p">>), OtherFrame}

\* a variant of NextResult: the first result is pushed again and again
NextResultRepeated(plan, n) == plan[1]

\* async for i in run_image_gen(...): the results come in the order yielded
NextResult(plan, n) == plan[n + 1]

\* a variant of ExceptTimeoutError: the clause names another exception
ExceptCancelledError(exc) == exc = "CancelledError"

\* except TimeoutError: pass
ExceptTimeoutError(exc) == exc = "TimeoutError"

\* an exception raised inside the try block: swallowed when the except clause
\* names it, otherwise it leaves process_frame
Raise(exc) ==
    IF ExceptTimeoutError(exc)
    THEN /\ imgState' = "done"
         /\ imgError' = "none"
    ELSE /\ imgState' = "raised"
         /\ imgError' = exc

\* the frames pushed by the current process_frame call
imgOut == SubSeq(imgLog, imgBase + 1, Len(imgLog))

\* a call of process_frame begins
ImgCall(frame) ==
    /\ imgState # "running"
    /\ imgCalls < MaxCalls
    /\ imgCalls' = imgCalls + 1
    /\ imgFrame' = frame
    /\ imgBase' = Len(imgLog)
    /\ imgTimedOut' = FALSE
    /\ imgAtTimeout' = <<>>
    /\ imgError' = "none"

\* if isinstance(frame, StoryImageFrame): the timeout block is entered and the
\* service is asked for images
ImgProcessImage(frame) ==
    /\ frame.type = "StoryImageFrame"
    /\ ImgCall(frame)
    /\ imgState' = "running"
    /\ \E plan \in Plans : imgPlan' = plan
    /\ imgLog' = imgLog
    /\ UNCHANGED <<storyVars, taskVars>>

\* else: the frame is pushed on
ImgProcessOther(frame) ==
    /\ frame.type # "StoryImageFrame"
    /\ ImgCall(frame)
    /\ imgState' = "done"
    /\ imgPlan' = <<>>
    /\ imgLog' = Append(imgLog, frame)
    /\ UNCHANGED <<storyVars, taskVars>>

ImgProcessFrame(frame) ==
    \/ ImgProcessImage(frame)
    \/ ImgProcessOther(frame)

\* the service yields its next result, which is pushed
ImgYield ==
    /\ imgState = "running"
    /\ Len(imgOut) < Len(imgPlan)
    /\ imgLog' = Append(imgLog, NextResult(imgPlan, Len(imgOut)))
    /\ UNCHANGED <<imgState, imgFrame, imgPlan, imgBase, imgTimedOut, imgAtTimeout, imgError, imgCalls>>
    /\ UNCHANGED <<storyVars, taskVars>>

\* the service's generator is exhausted: the loop and the timeout block end
ImgFinish ==
    /\ imgState = "running"
    /\ Len(imgOut) = Len(imgPlan)
    /\ imgState' = "done"
    /\ UNCHANGED <<imgFrame, imgPlan, imgLog, imgBase, imgTimedOut, imgAtTimeout, imgError, imgCalls>>
    /\ UNCHANGED <<storyVars, taskVars>>

\* timeout(7) expires while the loop is waiting: TimeoutError is raised in the block
ImgTimeout ==
    /\ imgState = "running"
    /\ imgTimedOut' = TRUE
    /\ imgAtTimeout' = imgOut
    /\ Raise("TimeoutError")
    /\ UNCHANGED <<imgFrame, imgPlan, imgLog, imgBase, imgCalls>>
    /\ UNCHANGED <<storyVars, taskVars>>

\* the service fails while the loop is waiting
ImgServiceError ==
    /\ imgState = "running"
    /\ Raise("ServiceError")
    /\ UNCHANGED <<imgFrame, imgPlan, imgLog, imgBase, imgTimedOut, imgAtTimeout, imgCalls>>
    /\ UNCHANGED <<storyVars, taskVars>>

(***************************************************************************)
(* StoryProcessor.process_frame as a coroutine.  Every await of push_frame *)
(* is a point where the call may be suspended and another call may run; a  *)
(* step below is the code from one such point to the next.  A task is the  *)
(* frame of a call, the await it is suspended at ("done" once it has       *)
(* returned) and whether every earlier call had returned when it began.    *)
(***************************************************************************)
TaskInit == tasks = <<>>

TaskFrames ==
    { TextFrame(<<"a", "b", "c">>),
      TextFrame(<<"<", "p", ">">>),
      TextFrame(Chunk3),
      LLMFullResponseEndFrame,
      UserStoppedSpeakingFrame,
      OtherFrame }

\* a new call of process_frame, run up to the await named pc
TaskBegin(frame, pc) ==
    /\ Len(tasks) < MaxTasks
    /\ tasks' = Append(tasks,
                       [frame |-> frame, pc |-> pc,
                        alone |-> \A i \in 1..Len(tasks) : tasks[i].pc = "done"])

\* the call of task i is suspended at the await named pc
Suspended(i, pc) == i <= Len(tasks) /\ tasks[i].pc = pc

\* the call resumes and runs up to the await named pc
TaskMove(i, pc) == tasks' = [tasks EXCEPT ![i].pc = pc]

\* what a step leaves alone
TaskLeaves ==
    /\ UNCHANGED <<inputs, prevText, prevStory, out>>
    /\ UNCHANGED imgVars

\* STORY PAGE up to the await of the page's push_frame; the buffer holds the
\* page while the call is suspended
ScanBreak(t, st) ==
    IF HasBreak(t)
    THEN LET page == ReplaceNewlines(RemoveBreaks(t))
         IN  IF LongEnough(page)
             THEN [text |-> page, story |-> Append(st, page),
                   out |-> <<StoryPageFrame(page)>>, pc |-> "page"]
             ELSE [text |-> <<>>, story |-> st, out |-> <<>>, pc |-> "done"]
    ELSE [text |-> t, story |-> st, out |-> <<>>, pc |-> "done"]

\* TextFrame: self._text += frame.text, then up to the first push_frame
StartText(frame) ==
    /\ frame.type # "UserStoppedSpeakingFrame"
    /\ IsTextFrame(frame)
    /\ LET img == ImageStage(text \o frame.text)
           r == ScanBreak(img.text, story)
       IN  IF img.out # <<>>
           THEN /\ text' = img.text
                /\ story' = story
                /\ events' = events \o img.out
                /\ TaskBegin(frame, "image")
           ELSE /\ text' = r.text
                /\ story' = r.story
                /\ events' = events \o r.out
                /\ TaskBegin(frame, r.pc)
    /\ TaskLeaves

\* after await self.push_frame(StoryImageFrame(image_prompt))
ResumeAfterImage(i) ==
    /\ Suspended(i, "image")
    /\ LET r == ScanBreak(text, story)
       IN  /\ text' = r.text
           /\ story' = r.story
           /\ events' = events \o r.out
           /\ TaskMove(i, r.pc)
    /\ TaskLeaves

\* after await self.push_frame(StoryPageFrame(self._text))
ResumeAfterPage(i) ==
    /\ Suspended(i, "page")
    /\ events' = events \o <<DailyTransportMessageFrame(CUE_ASSISTANT_TURN)>>
    /\ TaskMove(i, "cue")
    /\ UNCHANGED <<text, story>>
    /\ TaskLeaves

\* a variant of ResumeAfterCue: the buffer is not cleared
ResumeAfterCueKeepsBuffer(i) ==
    /\ Suspended(i, "cue")
    /\ TaskMove(i, "done")
    /\ UNCHANGED <<text, story, events>>
    /\ TaskLeaves

\* after await self.push_frame(DailyTransportMessageFrame(CUE_ASSISTANT_TURN)):
\* self._text = ""
ResumeAfterCue(i) ==
    /\ Suspended(i, "cue")
    /\ text' = <<>>
    /\ TaskMove(i, "done")
    /\ UNCHANGED <<story, events>>
    /\ TaskLeaves

\* LLMFullResponseEndFrame: up to await self.push_frame(StoryPromptFrame(self._text))
StartResponseEnd(frame) ==
    /\ frame.type # "UserStoppedSpeakingFrame"
    /\ ~IsTextFrame(frame)
    /\ frame.type = "LLMFullResponseEndFrame"
    /\ events' = events \o <<StoryPromptFrame(text)>>
    /\ TaskBegin(frame, "prompt")
    /\ UNCHANGED <<text, story>>
    /\ TaskLeaves

\* after the prompt's push_frame: self._text = "", await self.push_frame(frame)
ResumeAfterPrompt(i) ==
    /\ Suspended(i, "prompt")
    /\ text' = <<>>
    /\ events' = events \o <<tasks[i].frame>>
    /\ TaskMove(i, "end")
    /\ UNCHANGED story
    /\ TaskLeaves

\* after await self.push_frame(frame)
ResumeAfterEnd(i) ==
    /\ Suspended(i, "end")
    /\ events' = events \o <<DailyTransportMessageFrame(CUE_USER_TURN)>>
    /\ TaskMove(i, "usercue")
    /\ UNCHANGED <<text, story>>
    /\ TaskLeaves

\* after await self.push_frame(DailyTransportMessageFrame(CUE_USER_TURN))
ResumeAfterUserCue(i) ==
    /\ Suspended(i, "usercue")
    /\ events' = events \o <<sounds("listening")>>
    /\ TaskMove(i, "done")
    /\ UNCHANGED <<text, story>>
    /\ TaskLeaves

\* UserStoppedSpeakingFrame: up to the cue's push_frame
StartUserStopped(frame) ==
    /\ frame.type = "UserStoppedSpeakingFrame"
    /\ events' = events \o <<DailyTransportMessageFrame(CUE_ASSISTANT_TURN)>>
    /\ TaskBegin(frame, "talkcue")
    /\ UNCHANGED <<text, story>>
    /\ TaskLeaves

\* after await self.push_frame(DailyTransportMessageFrame(CUE_ASSISTANT_TURN))
ResumeAfterTalkCue(i) ==
    /\ Suspended(i, "talkcue")
    /\ events' = events \o <<sounds("talking")>>
    /\ TaskMove(i, "done")
    /\ UNCHANGED <<text, story>>
    /\ TaskLeaves

\* any other frame: await self.push_frame(frame)
StartOther(frame) ==
    /\ frame.type # "UserStoppedSpeakingFrame"
    /\ ~IsTextFrame(frame)
    /\ frame.type # "LLMFullResponseEndFrame"
    /\ events' = events \o <<frame>>
    /\ TaskBegin(frame, "done")
    /\ UNCHANGED <<text, story>>
    /\ TaskLeaves

TaskStart(frame) ==
    \/ StartUserStopped(frame)
    \/ StartText(frame)
    \/ StartResponseEnd(frame)
    \/ StartOther(frame)

TaskResume(i) ==
    \/ ResumeAfterImage(i)
    \/ ResumeAfterPage(i)
    \/ ResumeAfterCue(i)
    \/ ResumeAfterPrompt(i)
    \/ ResumeAfterEnd(i)
    \/ ResumeAfterUserCue(i)
    \/ ResumeAfterTalkCue(i)

Init == StoryInit /\ ImgInit /\ TaskInit

StoryNext == \E frame \in Frames : process_frame(frame)

ImgNext ==
    \/ \E frame \in ImageFrames : ImgProcessFrame(frame)
    \/ ImgYield
    \/ ImgFinish
    \/ ImgTimeout
    \/ ImgServiceError

TaskNext ==
    \/ \E frame \in TaskFrames : TaskStart(frame)
    \/ \E i \in 1..MaxTasks : TaskResume(i)

Next == StoryNext

\* StoryProcessor fed any sequence of frames
Spec == Init /\ [][Next]_vars

\* StoryImageProcessor fed any sequence of frames, the service and the timer free
SpecImage == Init /\ [][ImgNext]_vars

\* StoryProcessor with its process_frame calls started as tasks of one event
\* loop, each free to run whenever the others are suspended
SpecConcurrent == Init /\ [][TaskNext]_vars

(***************************************************************************)
(* What the properties below speak of.                                     *)
(***************************************************************************)
LastInput == inputs[Len(inputs)]

\* the frames of one class among fs, in order
OfType(fs, type) == SelectSeq(fs, LAMBDA f : f.type = type)

\* the concatenation of the texts of fs
RECURSIVE Concat(_)
Concat(fs) == IF fs = <<>> THEN <<>> ELSE Head(fs).text \o Concat(Tail(fs))

\* only text chunks have been fed so far
OnlyTextChunks == \A i \in 1..Len(inputs) : inputs[i].type = "TextFrame"

\* the text streamed so far
Stream == Concat(inputs)

\* the buffer the last text pass scanned: the old buffer and the chunk
ScannedBuffer == prevText \o LastInput.text

Chars(s) == {s[i] : i \in 1..Len(s)}

\* a [break] marker in any letter case
ContainsMarker(s) == \E i \in 1..Len(s) : BreakAtIgnoreCase(s, i)

\* the substrings of s that open with "<" and close with ">"
DirectivePairs(s) ==
    {p \in {i \in 1..Len(s) : s[i] = "<"} \X {j \in 1..Len(s) : s[j] = ">"} : p[1] < p[2]}

\* the payload of the only such substring
Payload(s) ==
    LET p == CHOOSE q \in DirectivePairs(s) : TRUE
    IN  SubSeq(s, p[1] + 1, p[2] - 1)

\* marker removal and newline folding
Normalized(s) == ReplaceNewlines(RemoveBreaks(s))

AssistantCue == DailyTransportMessageFrame(CUE_ASSISTANT_TURN)
UserCue == DailyTransportMessageFrame(CUE_USER_TURN)

(***************************************************************************)
(* C1.  The scenario of three chunks.                                      *)
(***************************************************************************)
Scenario == <<TextFrame(Chunk1), TextFrame(Chunk2), TextFrame(Chunk3)>>
ScenarioPrompt == <<"a", " ", "c", "a", "s", "t", "l", "e", " ", "a", "t", " ", "s", "u", "n", "s", "e", "t">>
ClaimedPage1 == <<"O", "n", "c", "e", " ", "u", "p", "o", "n", " ", "a", " ", "t", "i", "m", "e", ".", " ">>
ClaimedPage2 == <<" ", "T", "h", "e", " ", "p", "r", "i", "n", "c", "e", "s", "s", " ", "w", "o", "k", "e", " ", "u", "p", ".">>
ActualPage1 == <<"O", "n", "c", "e", " ", "u", "p", "o", "n", " ", "a", " ", "t", "i", "m", "e", ".", " ", " ", " ">>
ActualPage2 == <<"T", "h", "e", " ", "p", "r", "i", "n", "c", "e", "s", "s", " ", "w", "o", "k", "e", " ", "u", "p", ".">>

\* C1 as stated: after the three chunks "Once upon a time. ", "[break] <a castle
\* at sunset> ", "The princess woke up.[break]" the events are page("Once upon a
\* time. "), assistant cue, image request("a castle at sunset"), page(" The
\* princess woke up."), assistant cue, and the story holds those two pages.
C1_Scenario_AsStated ==
    inputs = Scenario =>
        /\ events = <<StoryPageFrame(ClaimedPage1), AssistantCue,
                      StoryImageFrame(ScenarioPrompt),
                      StoryPageFrame(ClaimedPage2), AssistantCue>>
        /\ story = <<ClaimedPage1, ClaimedPage2>>

\* C1 amended: after the three chunks the events are image request("a castle at
\* sunset"), page("Once upon a time.   ") with three trailing spaces, assistant
\* cue, page("The princess woke up.") with no leading space, assistant cue, and
\* the story holds exactly those two pages in that order.
C1_Scenario ==
    inputs = Scenario =>
        /\ events = <<StoryImageFrame(ScenarioPrompt),
                      StoryPageFrame(ActualPage1), AssistantCue,
                      StoryPageFrame(ActualPage2), AssistantCue>>
        /\ story = <<ActualPage1, ActualPage2>>

C1_Witness == inputs = Scenario /\ Len(story) = 2 /\ Len(events) = 5

(***************************************************************************)
(* C2.  One directive, no marker, any chunking.                            *)
(***************************************************************************)
OneDirectiveNoMarker ==
    /\ OnlyTextChunks
    /\ Cardinality(DirectivePairs(Stream)) = 1
    /\ ~ContainsMarker(Stream)

\* C2 as stated: when the chunks fed so far concatenate to a text with exactly
\* one <payload> substring and no [break] marker, exactly one image request has
\* been pushed and its text is that payload.
C2_OneImageRequest_AsStated ==
    OneDirectiveNoMarker =>
        OfType(events, "StoryImageFrame") = <<StoryImageFrame(Payload(Stream))>>

\* C2 amended: the same, for a payload that holds no newline.
C2_OneImageRequest ==
    (OneDirectiveNoMarker /\ "\n" \notin Chars(Payload(Stream))) =>
        OfType(events, "StoryImageFrame") = <<StoryImageFrame(Payload(Stream))>>

\* the directive arrived split over three chunks: "<", the payload, ">"
C2_Witness ==
    /\ OneDirectiveNoMarker
    /\ Len(inputs) = 3
    /\ inputs[1].text = <<"<">>
    /\ inputs[3].text = <<">">>
    /\ Payload(Stream) = <<"a", "b", "c">>
    /\ OfType(events, "StoryImageFrame") = <<StoryImageFrame(<<"a", "b", "c">>)>>

(***************************************************************************)
(* C3.  One marker, in any letter case, no directive.                      *)
(***************************************************************************)
\* C3: when the chunks fed so far hold no directive and the last chunk completes
\* the first [break] marker (any letter case) of the stream, so that the buffer
\* scanned is the whole stream, and the stream after marker removal and newline
\* folding is longer than 2, then exactly one page is in the story and exactly
\* one page frame and one assistant cue have been pushed.
C3_OneSegment ==
    ( /\ OnlyTextChunks
      /\ Len(inputs) > 0
      /\ ContainsMarker(Stream)
      /\ ~ContainsMarker(Concat(SubSeq(inputs, 1, Len(inputs) - 1)))
      /\ DirectivePairs(Stream) = {}
      /\ Len(Normalized(Stream)) > 2 ) =>
        /\ Len(story) = 1
        /\ Len(OfType(events, "StoryPageFrame")) = 1
        /\ OfType(events, "DailyTransportMessageFrame") = <<AssistantCue>>

(***************************************************************************)
(* C4.  Directive before segment.                                          *)
(***************************************************************************)
\* C4: in a text pass whose buffer holds a complete directive and a [break]
\* marker, the image request of that directive is the first frame pushed, any
\* page frame of the pass comes after it, and the page is the buffer with the
\* directive removed, the markers removed and the newlines folded.
C4_DirectiveBeforeSegment ==
    ( /\ Len(inputs) > 0
      /\ LastInput.type = "TextFrame"
      /\ HasDirective(ScannedBuffer)
      /\ ContainsMarker(ScannedBuffer) ) =>
        /\ Len(out) >= 1
        /\ out[1] = StoryImageFrame(ImagePrompt(ScannedBuffer))
        /\ \A i \in 1..Len(out) :
              /\ out[i].type = "StoryImageFrame" => i = 1
              /\ out[i].type = "StoryPageFrame" =>
                    /\ i = 2
                    /\ out[i].text = Normalized(RemoveDirective(ScannedBuffer))

\* a pass that pushed an image request and then a page
C4_Witness ==
    /\ Len(inputs) > 0
    /\ LastInput.type = "TextFrame"
    /\ HasDirective(ScannedBuffer)
    /\ ContainsMarker(ScannedBuffer)
    /\ Len(out) = 3
    /\ out[1].type = "StoryImageFrame"
    /\ out[2].type = "StoryPageFrame"

(***************************************************************************)
(* C5.  No directive text in a page.                                       *)
(***************************************************************************)
\* C5: no page frame pushed and no story entry holds a "<" or a ">", and so
\* none holds the text between a "<" and its ">".
C5_NoDirectiveInPage ==
    /\ \A i \in 1..Len(events) :
          events[i].type = "StoryPageFrame" => Chars(events[i].text) \cap {"<", ">"} = {}
    /\ \A i \in 1..Len(story) : Chars(story[i]) \cap {"<", ">"} = {}

(***************************************************************************)
(* C6.  The end of a full LLM response.                                    *)
(***************************************************************************)
\* C6: a pass on LLMFullResponseEndFrame pushes exactly the prompt frame with
\* the buffer as it was, the frame itself, the user cue and the listening
\* sound, in this order; the buffer is empty afterwards, the story as before.
C6_ResponseEnd ==
    (Len(inputs) > 0 /\ LastInput.type = "LLMFullResponseEndFrame") =>
        /\ out = <<StoryPromptFrame(prevText), LastInput, UserCue, sounds("listening")>>
        /\ text = <<>>
        /\ story = prevStory

\* the response ended with text in the buffer and a page in the story
C6_Witness ==
    /\ Len(inputs) > 0
    /\ LastInput.type = "LLMFullResponseEndFrame"
    /\ prevText # <<>>
    /\ story # <<>>
    /\ out[1] = StoryPromptFrame(prevText)

\* the response ended with an empty buffer
C6_WitnessEmpty ==
    /\ Len(inputs) > 0
    /\ LastInput.type = "LLMFullResponseEndFrame"
    /\ prevText = <<>>
    /\ Len(out) = 4

(***************************************************************************)
(* C7.  The user stopped speaking.                                         *)
(***************************************************************************)
\* C7: a pass on UserStoppedSpeakingFrame pushes exactly the assistant cue and
\* then the talking sound, and leaves buffer and story as they were.
C7_UserStopped ==
    (Len(inputs) > 0 /\ LastInput.type = "UserStoppedSpeakingFrame") =>
        /\ out = <<AssistantCue, sounds("talking")>>
        /\ text = prevText
        /\ story = prevStory

\* the user stopped speaking with text in the buffer and a page in the story
C7_Witness ==
    /\ Len(inputs) > 0
    /\ LastInput.type = "UserStoppedSpeakingFrame"
    /\ text # <<>>
    /\ story # <<>>
    /\ Len(out) = 2

(***************************************************************************)
(* C8.  A page of at most two characters is dropped.                       *)
(***************************************************************************)
\* the buffer the page stage of the last text pass scanned
PageBuffer ==
    IF HasDirective(ScannedBuffer) THEN RemoveDirective(ScannedBuffer) ELSE ScannedBuffer

\* the last pass was a text pass whose page stage found a marker
MarkerDetected ==
    /\ Len(inputs) > 0
    /\ LastInput.type = "TextFrame"
    /\ \E i \in 1..Len(PageBuffer) : BreakAt(PageBuffer, i)

\* C8: when the page stage finds a marker and the buffer after marker removal
\* and newline folding has at most 2 characters, the story is as before and the
\* pass pushes no page frame and no cue; the buffer is empty after the pass,
\* whatever the length.
C8_ShortPageDropped ==
    MarkerDetected =>
        /\ text = <<>>
        /\ Len(Normalized(PageBuffer)) <= 2 =>
              /\ story = prevStory
              /\ OfType(out, "StoryPageFrame") = <<>>
              /\ OfType(out, "DailyTransportMessageFrame") = <<>>

\* a marker arrived after two characters of text, which were dropped
C8_Witness ==
    /\ MarkerDetected
    /\ Len(Normalized(PageBuffer)) = 2
    /\ story = prevStory
    /\ text = <<>>

(***************************************************************************)
(* C9.  The image service yields nothing before the timeout.               *)
(***************************************************************************)
\* the current call of StoryImageProcessor handles an image request
ImageRequest == imgState # "idle" /\ imgFrame.type = "StoryImageFrame"

\* C9: when the timeout of an image request fires before the service has
\* yielded anything, the call has ended, it has pushed no frame and it lets no
\* exception escape.
C9_TimeoutNoResult ==
    (ImageRequest /\ imgTimedOut /\ imgAtTimeout = <<>>) =>
        /\ imgState = "done"
        /\ imgOut = <<>>
        /\ imgError = "none"

\* the timeout fired on a service that had results to yield and yielded none
C9_Witness ==
    /\ ImageRequest
    /\ imgTimedOut
    /\ imgAtTimeout = <<>>
    /\ imgPlan # <<>>
    /\ imgState = "done"

(***************************************************************************)
(* C10.  What an image request pushes is a prefix of what the service      *)
(* yields.                                                                 *)
(***************************************************************************)
IsPrefix(a, b) == Len(a) <= Len(b) /\ a = SubSeq(b, 1, Len(a))

\* C10: the frames pushed for an image request are, in order, the first results
\* of the service; once the timeout has fired they are those pushed before it,
\* no more and no fewer, and no exception escapes the call.
C10_PrefixOfResults ==
    ImageRequest =>
        /\ IsPrefix(imgOut, imgPlan)
        /\ imgTimedOut =>
              /\ imgOut = imgAtTimeout
              /\ imgState = "done"
              /\ imgError = "none"

\* the timeout fired between two results: the first stays pushed, the second never is
C10_Witness ==
    /\ ImageRequest
    /\ imgTimedOut
    /\ Len(imgPlan) = 2
    /\ imgPlan[1] # imgPlan[2]
    /\ imgOut = <<imgPlan[1]>>
    /\ imgState = "done"

(***************************************************************************)
(* C11.  Any other frame passes through.                                   *)
(***************************************************************************)
\* the last frame handled is of none of the classes process_frame tests for
LastIsOther ==
    /\ Len(inputs) > 0
    /\ LastInput.type \notin {"UserStoppedSpeakingFrame", "LLMFullResponseEndFrame",
                               "TextFrame", "StoryPageFrame", "StoryImageFrame",
                               "StoryPromptFrame"}

\* C11: a pass on a frame that is no text frame, no UserStoppedSpeakingFrame
\* and no LLMFullResponseEndFrame pushes that frame, once, and nothing else,
\* and leaves buffer and story as they were.
C11_Passthrough ==
    LastIsOther =>
        /\ out = <<LastInput>>
        /\ text = prevText
        /\ story = prevStory

\* another frame passed through with text in the buffer and a page in the story
C11_Witness ==
    /\ LastIsOther
    /\ text # <<>>
    /\ story # <<>>
    /\ out = <<LastInput>>

(***************************************************************************)
(* C12.  The marker in any letter case.                                    *)
(***************************************************************************)
\* C12: a text pass whose buffer, after directive removal, holds the marker
\* [break] in any letter case extracts the segment: the buffer is empty after
\* the pass, and a page of more than 2 characters is in the story and pushed.
C12_CaseInsensitiveScan ==
    ( /\ Len(inputs) > 0
      /\ LastInput.type = "TextFrame"
      /\ ContainsMarker(PageBuffer) ) =>
        /\ text = <<>>
        /\ Len(Normalized(PageBuffer)) > 2 =>
              /\ story = Append(prevStory, Normalized(PageBuffer))
              /\ StoryPageFrame(Normalized(PageBuffer)) \in {out[i] : i \in 1..Len(out)}

(***************************************************************************)
(* C13.  An unclosed directive stalls extraction.                          *)
(***************************************************************************)
\* s holds a "<" and no ">" after any "<"
Unclosed(s) == "<" \in Chars(s) /\ DirectivePairs(s) = {}

\* the text between the first "<" of s and the first ">" after it
FirstPayload(s) ==
    LET i == Min({k \in 1..Len(s) : s[k] = "<"})
        j == Min({k \in (i + 1)..Len(s) : s[k] = ">"})
    IN  SubSeq(s, i + 1, j - 1)

\* C13: a text pass whose buffer holds a "<" that no ">" closes yet pushes
\* nothing and leaves the buffer as the old buffer and the chunk; the pass
\* whose chunk brings the ">" pushes the image request with the text between
\* the two delimiters.
C13_UnclosedStalls ==
    (Len(inputs) > 0 /\ LastInput.type = "TextFrame") =>
        /\ Unclosed(ScannedBuffer) => (out = <<>> /\ text = ScannedBuffer)
        /\ (Unclosed(prevText) /\ ">" \in Chars(LastInput.text)) =>
              (Len(out) >= 1 /\ out[1] = StoryImageFrame(FirstPayload(ScannedBuffer)))

(***************************************************************************)
(* C14.  How the buffer grows and shrinks.                                 *)
(***************************************************************************)
LastIsText == Len(inputs) > 0 /\ LastInput.type = "TextFrame"

\* the last pass pushed an image request
DirectiveResolved == OfType(out, "StoryImageFrame") # <<>>

\* t is s with one substring "<...>" cut out, whose payload is p
CutOut(s, t, p) ==
    \E d \in DirectivePairs(s) :
        /\ t = SubSeq(s, 1, d[1] - 1) \o SubSeq(s, d[2] + 1, Len(s))
        /\ p = SubSeq(s, d[1] + 1, d[2] - 1)

\* C14 as stated: a text pass that resolves a directive or a segment leaves
\* the buffer empty; any other text pass leaves the old buffer and the chunk.
C14_BufferCleared_AsStated ==
    LastIsText =>
        IF DirectiveResolved \/ MarkerDetected
        THEN text = <<>>
        ELSE text = ScannedBuffer

\* C14 amended: a text pass that finds a marker leaves the buffer empty; one
\* that resolves a directive and finds no marker leaves the buffer with that
\* "<...>" substring cut out and the rest kept; any other text pass leaves the
\* old buffer and the chunk.
C14_BufferDiscipline ==
    LastIsText =>
        IF MarkerDetected
        THEN text = <<>>
        ELSE IF DirectiveResolved
        THEN Len(out) = 1 /\ CutOut(ScannedBuffer, text, out[1].text)
        ELSE text = ScannedBuffer

\* a directive was resolved and the text around it stayed in the buffer
C14_Witness ==
    /\ LastIsText
    /\ DirectiveResolved
    /\ ~MarkerDetected
    /\ prevText # <<>>
    /\ text = prevText

(***************************************************************************)
(* C15.  At most one image request per text pass, for the leftmost match.  *)
(***************************************************************************)
\* the "<" that open a complete directive: a ">" follows on the same line
Opens(s) ==
    {i \in 1..Len(s) : /\ s[i] = "<"
                       /\ \E j \in (i + 1)..Len(s) :
                             s[j] = ">" /\ "\n" \notin {s[k] : k \in (i + 1)..(j - 1)}}

LeftmostOpen(s) == Min(Opens(s))
LeftmostClose(s) == Min({j \in (LeftmostOpen(s) + 1)..Len(s) : s[j] = ">"})

\* s without its leftmost directive
WithoutLeftmost(s) ==
    SubSeq(s, 1, LeftmostOpen(s) - 1) \o SubSeq(s, LeftmostClose(s) + 1, Len(s))

TextInputs == OfType(inputs, "TextFrame")

\* C15: a text pass pushes at most one image request; it pushes one exactly
\* when the buffer holds a complete directive, its text is the payload of the
\* leftmost one, and what the pass goes on with (the buffer it leaves, or the
\* page it cuts) is the buffer with that one occurrence removed.  So there are
\* never more image requests than text frames handled.
C15_OneDirectivePerPass ==
    /\ Len(OfType(events, "StoryImageFrame")) <= Len(TextInputs)
    /\ LastIsText =>
          /\ Len(OfType(out, "StoryImageFrame")) <= 1
          /\ Opens(ScannedBuffer) = {} => OfType(out, "StoryImageFrame") = <<>>
          /\ Opens(ScannedBuffer) # {} =>
                LET rest == WithoutLeftmost(ScannedBuffer)
                IN  /\ out[1] = StoryImageFrame(SubSeq(ScannedBuffer,
                                                       LeftmostOpen(ScannedBuffer) + 1,
                                                       LeftmostClose(ScannedBuffer) - 1))
                    /\ IF \E i \in 1..Len(rest) : BreakAt(rest, i)
                       THEN /\ text = <<>>
                            /\ Len(Normalized(rest)) > 2 =>
                                  (Len(out) = 3 /\ out[2] = StoryPageFrame(Normalized(rest)))
                       ELSE text = rest

\* a pass whose buffer held two complete directives resolved the first only
C15_Witness ==
    /\ LastIsText
    /\ Cardinality(Opens(ScannedBuffer)) = 2
    /\ Len(OfType(out, "StoryImageFrame")) = 1
    /\ out[1].text = <<"p">>
    /\ Opens(WithoutLeftmost(ScannedBuffer)) # {}

(***************************************************************************)
(* C16.  The story only grows, at its end, by one page per input.          *)
(***************************************************************************)
\* C16: after every input the story as it was is a prefix of the story, at
\* most one entry was added, and the entry added is the page of that pass, so
\* that the entries stand in the order in which their markers were handled.
C16_StoryAppendOnly ==
    /\ IsPrefix(prevStory, story)
    /\ Len(story) <= Len(prevStory) + 1
    /\ Len(story) = Len(prevStory) + 1 =>
          /\ LastIsText
          /\ MarkerDetected
          /\ story[Len(story)] = Normalized(PageBuffer)

\* a second page was appended after the first
C16_Witness ==
    /\ Len(prevStory) = 1
    /\ Len(story) = 2
    /\ story[1] = prevStory[1]
    /\ story[1] # story[2]

(***************************************************************************)
(* C18.  No marker stays in the buffer between inputs.                     *)
(***************************************************************************)
\* C18: after every call the buffer holds no [break] and no [Break].
C18_NoMarkerLeft == ~(\E i \in 1..Len(text) : BreakAt(text, i))

\* the marker formed only when the directive between its halves was removed,
\* and the same pass cut the page
C18_Witness ==
    /\ LastIsText
    /\ ~ContainsMarker(ScannedBuffer)
    /\ HasDirective(ScannedBuffer)
    /\ MarkerDetected
    /\ text = <<>>

(***************************************************************************)
(* C19.  The story is the list of the pages pushed, and every page is      *)
(* clean.                                                                  *)
(***************************************************************************)
\* the texts of the StoryPageFrames pushed so far, in the order of the pushes
PagesPushed == [i \in 1..Len(OfType(events, "StoryPageFrame")) |->
                   OfType(events, "StoryPageFrame")[i].text]

\* C19: in every reachable state the story equals the texts of all the
\* StoryPageFrames pushed so far, in order, and every entry is longer than two
\* characters, holds no newline and holds no [break] marker in any letter case.
C19_StoryIsPages ==
    /\ story = PagesPushed
    /\ \A i \in 1..Len(story) :
          /\ Len(story[i]) > 2
          /\ "\n" \notin Chars(story[i])
          /\ ~ContainsMarker(story[i])

(***************************************************************************)
(* C17.  Calls of StoryProcessor.process_frame started as concurrent       *)
(* tasks, against the same calls made one after the other.                 *)
(***************************************************************************)
\* one whole call on the state s = [text, story, events]
SerialPass(s, frame) ==
    IF frame.type = "UserStoppedSpeakingFrame"
    THEN [s EXCEPT !.events = @ \o UserStoppedPass]
    ELSE IF IsTextFrame(frame)
    THEN LET r == TextPass(s.text, s.story, frame.text)
         IN  [text |-> r.text, story |-> r.story, events |-> s.events \o r.out]
    ELSE IF frame.type = "LLMFullResponseEndFrame"
    THEN LET r == EndPass(s.text, frame)
         IN  [text |-> r.text, story |-> s.story, events |-> s.events \o r.out]
    ELSE [s EXCEPT !.events = @ \o <<frame>>]

\* the calls of fs made one after the other on a fresh StoryProcessor
RECURSIVE RunSerialFrom(_, _)
RunSerialFrom(s, fs) ==
    IF fs = <<>> THEN s ELSE RunSerialFrom(SerialPass(s, Head(fs)), Tail(fs))

RunSerial(fs) == RunSerialFrom([text |-> <<>>, story |-> <<>>, events |-> <<>>], fs)

\* what the tasks have made of the buffer, the story and the frames pushed
Result == [text |-> text, story |-> story, events |-> events]

\* the frames that carry text taken from the buffer
CarriesText(f) == f.type \in {"StoryImageFrame", "StoryPageFrame", "StoryPromptFrame"}

\* where the buffered text of a result went: what is still buffered, the
\* story, and the text-carrying frames pushed, in order
TextOf(r) ==
    [text |-> r.text, story |-> r.story, events |-> SelectSeq(r.events, CarriesText)]

AllDone == \A i \in 1..Len(tasks) : tasks[i].pc = "done"

\* the orders the tasks can be put in
Orders ==
    {p \in [1..Len(tasks) -> 1..Len(tasks)] :
        \A i, j \in 1..Len(tasks) : p[i] = p[j] => i = j}

\* every call began after all the earlier calls had returned
NoOverlap == \A i \in 1..Len(tasks) : tasks[i].alone

====
